---------------------------- MODULE Spec2Model ----------------------------
(***************************************************************************)
(* dbsqlx: extraction of tables, columns, action and WHERE filter from a   *)
(* parsed SQL statement tree (ColX visitor), the per-table split of the    *)
(* WHERE filter (FilterWhereForTable) and the mysqldump plan (runDump).    *)
(*                                                                         *)
(* Text is a sequence of one-character strings, so that the Go string      *)
(* functions (Contains, ReplaceAll, Split, TrimSpace, Join) and the two    *)
(* regular expressions are computed character by character.                *)
(***************************************************************************)
EXTENDS Integers, Sequences, FiniteSets, TLC

VARIABLES
    cmd,        \* the command that runs: "parse" (runParse) or "dump" (runDump)
    sql,        \* the input, as what the parser makes of it: trees, or an error
    stmtNodes,  \* the statement trees ParseAll returned
    pc,         \* position of the command: start, loop, visit, done, error, panic
    idx,        \* index (from 1) of the statement being processed
    todo,       \* nodes of the current tree the visitor has still to Enter
    v,          \* the ColX visitor of the current Extract call
    out,        \* the calls of Println and Printf so far, in order
    globals,    \* the flag variables user, password, host, ip, database
    lastRender, \* the last rendering of a WHERE clause in the current Extract
    call,       \* a direct call of FilterWhereForTable and its result
    flags,      \* the flags given on the command line of this invocation
    history     \* the flags of the earlier invocations of the process, in order

vars == <<cmd, sql, stmtNodes, pc, idx, todo, v, out, globals, lastRender, call,
          flags, history>>

(***************************************************************************)
(* Bounds of the model.                                                    *)
(***************************************************************************)
MaxConds == 2           \* conditions joined by AND in a WHERE clause
MaxDrop == 2            \* table names listed in a DROP TABLE
MaxStmts == 2           \* statements in a multi-statement input
MaxFilterConds == 2     \* conditions in a filter handed to FilterWhereForTable
MaxFilterTables == 2    \* length of the allTables argument of a direct call
MaxRuns == 2            \* invocations of a command in one process

(***************************************************************************)
(* Go strings.                                                             *)
(***************************************************************************)
Empty == <<>>

\* s[i..] starts with p
HasPrefixAt(s, i, p) ==
    /\ i >= 1
    /\ i + Len(p) - 1 <= Len(s)
    /\ SubSeq(s, i, i + Len(p) - 1) = p

\* strings.Index, counted from 1; 0 when p does not occur in s
Index(s, p) ==
    LET hits == {i \in 1..(Len(s) - Len(p) + 1) : HasPrefixAt(s, i, p)}
    IN  IF hits = {} THEN 0 ELSE CHOOSE i \in hits : \A j \in hits : i <= j

\* strings.Contains
Contains(s, p) == Index(s, p) # 0

\* strings.ReplaceAll for a non-empty old: leftmost non-overlapping occurrences
RECURSIVE ReplaceAll(_, _, _)
ReplaceAll(s, old, new) ==
    LET i == Index(s, old)
    IN  IF i = 0 THEN s
        ELSE SubSeq(s, 1, i - 1) \o new
             \o ReplaceAll(SubSeq(s, i + Len(old), Len(s)), old, new)

\* strings.Split for a non-empty separator
RECURSIVE Split(_, _)
Split(s, sep) ==
    LET i == Index(s, sep)
    IN  IF i = 0 THEN <<s>>
        ELSE <<SubSeq(s, 1, i - 1)>> \o Split(SubSeq(s, i + Len(sep), Len(s)), sep)

\* strings.Join
RECURSIVE Join(_, _)
Join(parts, sep) ==
    IF Len(parts) = 0 THEN Empty
    ELSE IF Len(parts) = 1 THEN parts[1]
    ELSE parts[1] \o sep \o Join(Tail(parts), sep)

\* strings.TrimSpace (the only white space of the model's texts is the blank)
RECURSIVE TrimLeft(_)
TrimLeft(s) == IF Len(s) > 0 /\ s[1] = " " THEN TrimLeft(Tail(s)) ELSE s

RECURSIVE TrimRight(_)
TrimRight(s) ==
    IF Len(s) > 0 /\ s[Len(s)] = " " THEN TrimRight(SubSeq(s, 1, Len(s) - 1)) ELSE s

TrimSpace(s) == TrimRight(TrimLeft(s))

Dot == <<".">>
SepAnd == <<" ", "a", "n", "d", " ">>

(***************************************************************************)
(* FilterWhereForTable: the WHERE conditions relevant to one table.        *)
(***************************************************************************)
\* the loop body's else branch: does any known table's prefix occur
HasTablePrefix(condition, allTables) ==
    \E k \in 1..Len(allTables) : Contains(condition, allTables[k] \o Dot)

\* the loop with the target's prefix left in the conditions it keeps
RECURSIVE RelevantConditions_KeepsPrefix(_, _, _)
RelevantConditions_KeepsPrefix(conditions, tableName, allTables) ==
    IF Len(conditions) = 0 THEN <<>>
    ELSE LET condition == TrimSpace(conditions[1])
             rest == RelevantConditions_KeepsPrefix(Tail(conditions), tableName,
                                                    allTables)
         IN  IF Contains(condition, tableName \o Dot)
             THEN <<condition>> \o rest
             ELSE IF ~HasTablePrefix(condition, allTables)
                  THEN <<condition>> \o rest
                  ELSE rest

\* the loop with the conditions taken as Split hands them over, blanks and all
RECURSIVE RelevantConditions_NoTrim(_, _, _)
RelevantConditions_NoTrim(conditions, tableName, allTables) ==
    IF Len(conditions) = 0 THEN <<>>
    ELSE LET condition == conditions[1]
             rest == RelevantConditions_NoTrim(Tail(conditions), tableName, allTables)
         IN  IF Contains(condition, tableName \o Dot)
             THEN <<ReplaceAll(condition, tableName \o Dot, Empty)>> \o rest
             ELSE IF ~HasTablePrefix(condition, allTables)
                  THEN <<condition>> \o rest
                  ELSE rest

\* the loop over the conditions, appending to relevantConditions
RECURSIVE RelevantConditions(_, _, _)
RelevantConditions(conditions, tableName, allTables) ==
    IF Len(conditions) = 0 THEN <<>>
    ELSE LET condition == TrimSpace(conditions[1])
             rest == RelevantConditions(Tail(conditions), tableName, allTables)
         IN  IF Contains(condition, tableName \o Dot)
             THEN <<ReplaceAll(condition, tableName \o Dot, Empty)>> \o rest
             ELSE IF ~HasTablePrefix(condition, allTables)
                  THEN <<condition>> \o rest
                  ELSE rest

FilterWhereForTable_SkipsSingle(whereFilter, tableName, allTables) ==
    IF whereFilter = Empty THEN Empty
    ELSE IF Len(allTables) < 1 THEN whereFilter
    ELSE Join(RelevantConditions(Split(whereFilter, SepAnd), tableName, allTables),
              SepAnd)

FilterWhereForTable(whereFilter, tableName, allTables) ==
    IF whereFilter = Empty THEN Empty
    ELSE IF Len(allTables) <= 1 THEN whereFilter
    ELSE Join(RelevantConditions(Split(whereFilter, SepAnd), tableName, allTables),
              SepAnd)

(***************************************************************************)
(* Statement trees, as the parser hands them over.  A node is a record     *)
(* with a type field named after the ast type; an absent child is Nil.     *)
(***************************************************************************)
Nil == [type |-> "Nil"]

TableName(name) == [type |-> "TableName", Name |-> name]
TableSource(source, asName) ==
    [type |-> "TableSource", Source |-> source, AsName |-> asName]
JoinNode(left, right, on) ==
    [type |-> "Join", Left |-> left, Right |-> right, On |-> on]
ColumnName(table, name) == [type |-> "ColumnName", Table |-> table, Name |-> name]
ColumnNameExpr(table, name) ==
    [type |-> "ColumnNameExpr", Name |-> ColumnName(table, name)]
IntValue(digits) == [type |-> "ValueExpr", Kind |-> "int", Text |-> digits]
\* a string literal carries the charset the parser gave it: the connection's
\* (utf8mb4) when it is written bare, the introducer's when it has one
CharsetValue(charset, text) ==
    [type |-> "ValueExpr", Kind |-> "string", Charset |-> charset, Text |-> text]
StringValue(text) == CharsetValue(<<"u", "t", "f", "8", "m", "b", "4">>, text)
BinaryOperationExpr(op, l, r) ==
    [type |-> "BinaryOperationExpr", Op |-> op, L |-> l, R |-> r]
PatternInExpr(expr, sel) == [type |-> "PatternInExpr", Expr |-> expr, Sel |-> sel]
SelectStmt(fields, from, where) ==
    [type |-> "SelectStmt", Fields |-> fields, From |-> from, Where |-> where]
UpdateStmt(refs, list, where) ==
    [type |-> "UpdateStmt", TableRefs |-> refs, List |-> list, Where |-> where]
DeleteStmt(refs, where) ==
    [type |-> "DeleteStmt", TableRefs |-> refs, Where |-> where]
InsertStmt(table, columns, select) ==
    [type |-> "InsertStmt", Table |-> table, Columns |-> columns, Select |-> select]
AlterTableStmt(table, cols) ==
    [type |-> "AlterTableStmt", Table |-> table, Cols |-> cols]
CreateTableStmt(table, cols, select) ==
    [type |-> "CreateTableStmt", Table |-> table, Cols |-> cols, Select |-> select]
TruncateTableStmt(table) == [type |-> "TruncateTableStmt", Table |-> table]
DropTableStmt(tables) == [type |-> "DropTableStmt", Tables |-> tables]

IsNil(n) == n.type = "Nil"

(***************************************************************************)
(* Accept: the nodes of a tree in the order the visitor Enters them.  Enter *)
(* returns skipChildren = false for every node, so the walk is the full    *)
(* pre-order; nodes whose type has no case in Enter (Join, TableSource,    *)
(* TableName, expressions) are left out: Enter passes over them unchanged. *)
(***************************************************************************)
RECURSIVE Accept(_)
RECURSIVE AcceptAll(_)
AcceptAll(nodes) ==
    IF Len(nodes) = 0 THEN <<>> ELSE Accept(nodes[1]) \o AcceptAll(Tail(nodes))

Accept(n) ==
    CASE n.type = "Nil" -> <<>>
      [] n.type = "TableName" -> <<>>
      [] n.type = "TableSource" -> Accept(n.Source)
      [] n.type = "Join" -> Accept(n.Left) \o Accept(n.Right) \o Accept(n.On)
      [] n.type = "ColumnName" -> <<n>>
      [] n.type = "ColumnNameExpr" -> Accept(n.Name)
      [] n.type = "ValueExpr" -> <<>>
      [] n.type = "BinaryOperationExpr" -> Accept(n.L) \o Accept(n.R)
      [] n.type = "PatternInExpr" -> Accept(n.Expr) \o Accept(n.Sel)
      [] n.type = "SelectStmt" ->
            <<n>> \o AcceptAll(n.Fields) \o Accept(n.From) \o Accept(n.Where)
      [] n.type = "UpdateStmt" ->
            <<n>> \o Accept(n.TableRefs) \o AcceptAll(n.List) \o Accept(n.Where)
      [] n.type = "Assignment" -> Accept(n.Column) \o Accept(n.Expr)
      [] n.type = "DeleteStmt" -> <<n>> \o Accept(n.TableRefs) \o Accept(n.Where)
      [] n.type = "InsertStmt" ->
            <<n>> \o Accept(n.Select) \o Accept(n.Table) \o AcceptAll(n.Columns)
      [] n.type = "AlterTableStmt" -> <<n>> \o Accept(n.Table) \o AcceptAll(n.Cols)
      [] n.type = "CreateTableStmt" ->
            <<n>> \o Accept(n.Table) \o AcceptAll(n.Cols) \o Accept(n.Select)
      [] n.type = "TruncateTableStmt" -> <<n>> \o Accept(n.Table)
      [] n.type = "DropTableStmt" -> <<n>> \o AcceptAll(n.Tables)

(***************************************************************************)
(* Restore: the tree's own rendering of an expression (DefaultRestoreFlags: *)
(* names in backquotes, keywords in upper case, strings in single quotes   *)
(* behind their charset introducer).                                       *)
(***************************************************************************)
\* the backquote character (the parser of this notation reads one inside a string
\* as the start of a quotation, so the character is written by name)
BackQuote == <<"BACKQUOTE">>
Quote == <<"'">>
Utf8mb4 == <<"_", "U", "T", "F", "8", "M", "B", "4">>
KwAnd == <<" ", "A", "N", "D", " ">>
KwIn == <<" ", "I", "N", " ">>
KwSelect == <<"S", "E", "L", "E", "C", "T", " ">>
KwFrom == <<" ", "F", "R", "O", "M", " ">>
KwWhere == <<" ", "W", "H", "E", "R", "E", " ">>
KwJoin == <<" ", "J", "O", "I", "N", " ">>
KwAs == <<" ", "A", "S", " ">>
KwOn == <<" ", "O", "N", " ">>

\* a keyword goes out in upper case (the letters of the charset names)
UpperOf(c) ==
    CASE c = "a" -> "A" [] c = "b" -> "B" [] c = "f" -> "F" [] c = "i" -> "I"
      [] c = "l" -> "L" [] c = "m" -> "M" [] c = "n" -> "N" [] c = "t" -> "T"
      [] c = "u" -> "U" [] OTHER -> c
WriteKeyWord(s) == [k \in 1..Len(s) |-> UpperOf(s[k])]

RestoreName(name) == BackQuote \o name \o BackQuote

RECURSIVE Restore(_)
RECURSIVE RestoreList(_)
RestoreList(nodes) ==
    IF Len(nodes) = 0 THEN <<"*">>
    ELSE IF Len(nodes) = 1 THEN Restore(nodes[1])
    ELSE Restore(nodes[1]) \o <<",">> \o RestoreList(Tail(nodes))

Restore(n) ==
    CASE n.type = "TableName" -> RestoreName(n.Name)
      [] n.type = "TableSource" ->
            Restore(n.Source)
            \o (IF n.AsName = Empty THEN Empty ELSE KwAs \o RestoreName(n.AsName))
      [] n.type = "Join" ->
            Restore(n.Left)
            \o (IF IsNil(n.Right) THEN Empty ELSE KwJoin \o Restore(n.Right))
            \o (IF IsNil(n.On) THEN Empty ELSE KwOn \o Restore(n.On))
      [] n.type = "ColumnName" ->
            (IF n.Table = Empty THEN Empty ELSE RestoreName(n.Table) \o Dot)
            \o RestoreName(n.Name)
      [] n.type = "ColumnNameExpr" -> Restore(n.Name)
      [] n.type = "ValueExpr" ->
            IF n.Kind = "string"
            THEN <<"_">> \o WriteKeyWord(n.Charset) \o Quote \o n.Text \o Quote
            ELSE n.Text
      [] n.type = "BinaryOperationExpr" ->
            Restore(n.L) \o (IF n.Op = "AND" THEN KwAnd ELSE <<"=">>) \o Restore(n.R)
      [] n.type = "PatternInExpr" ->
            Restore(n.Expr) \o KwIn \o <<"(">> \o Restore(n.Sel) \o <<")">>
      [] n.type = "SelectStmt" ->
            KwSelect \o RestoreList(n.Fields)
            \o (IF IsNil(n.From) THEN Empty ELSE KwFrom \o Restore(n.From))
            \o (IF IsNil(n.Where) THEN Empty ELSE KwWhere \o Restore(n.Where))

\* Restore returns an error: an operator without a text, here or below
Operators == {"AND", "EQ"}

RECURSIVE RestoreFails(_)
RestoreFails(n) ==
    CASE n.type = "BinaryOperationExpr" ->
            RestoreFails(n.L) \/ n.Op \notin Operators \/ RestoreFails(n.R)
      [] n.type = "PatternInExpr" -> RestoreFails(n.Expr) \/ RestoreFails(n.Sel)
      [] n.type = "SelectStmt" -> RestoreFails(n.Where)
      [] OTHER -> FALSE

(***************************************************************************)
(* The two regular expressions of the WHERE rendering.                     *)
(***************************************************************************)
WordChars ==
    {"a", "b", "c", "d", "e", "f", "g", "h", "i", "j", "k", "l", "m", "n", "o",
     "p", "q", "r", "s", "t", "u", "v", "w", "x", "y", "z",
     "A", "B", "C", "D", "E", "F", "G", "H", "I", "J", "K", "L", "M", "N", "O",
     "P", "Q", "R", "S", "T", "U", "V", "W", "X", "Y", "Z",
     "0", "1", "2", "3", "4", "5", "6", "7", "8", "9", "_"}

IsWordChar(c) == c \in WordChars

\* \b before s[i]: exactly one of s[i-1], s[i] is a word character
WordBoundaryAt(s, i) ==
    LET before == i > 1 /\ IsWordChar(s[i - 1])
        after == i <= Len(s) /\ IsWordChar(s[i])
    IN  before # after

\* the pattern \b<alias>\. matches at s[i]
AliasMatchAt(s, i, alias) ==
    /\ HasPrefixAt(s, i, alias \o Dot)
    /\ WordBoundaryAt(s, i)

\* regexp ReplaceAllString of \b<alias>\. by <tableName>. from s[i] on
RECURSIVE ReplaceAliasFrom(_, _, _, _)
ReplaceAliasFrom(s, i, alias, tableName) ==
    IF i > Len(s) THEN Empty
    ELSE IF AliasMatchAt(s, i, alias)
         THEN tableName \o Dot
              \o ReplaceAliasFrom(s, i + Len(alias) + 1, alias, tableName)
         ELSE <<s[i]>> \o ReplaceAliasFrom(s, i + 1, alias, tableName)

ReplaceAlias(s, alias, tableName) == ReplaceAliasFrom(s, 1, alias, tableName)

\* regexp ReplaceAllString of _UTF8MB4'(.*?)' by '$1'
RECURSIVE StripCharset(_)
StripCharset(s) ==
    LET i == Index(s, Utf8mb4 \o Quote)
        from == i + Len(Utf8mb4) + 1
        rest == SubSeq(s, from, Len(s))
        j == Index(rest, Quote)
    IN  IF i = 0 \/ j = 0 THEN s
        ELSE SubSeq(s, 1, i - 1) \o Quote \o SubSeq(rest, 1, j - 1) \o Quote
             \o StripCharset(SubSeq(rest, j + 1, Len(rest)))

(***************************************************************************)
(* ColX, the visitor.                                                      *)
(***************************************************************************)
EmptyMap == [a \in {} |-> Empty]

NewColX ==
    [ColNames |-> <<>>, TableNames |-> <<>>, PrimaryTable |-> Empty,
     Action |-> "", WhereFilter |-> Empty, AliasMap |-> EmptyMap]

MapPut(m, k, val) == [a \in DOMAIN m \cup {k} |-> IF a = k THEN val ELSE m[a]]

InSeq(x, s) == \E k \in 1..Len(s) : s[k] = x

\* the orders in which a range loop may visit the keys of a map
Orders(keys) ==
    {ord \in [1..Cardinality(keys) -> keys] :
        \A i, j \in 1..Cardinality(keys) : i # j => ord[i] # ord[j]}

\* one side of a join: a table source registers its alias and adds its name once
RECURSIVE extractTableNames(_, _)
extractTableSide(x, side) ==
    CASE side.type = "TableSource" ->
            IF side.Source.type = "TableName"
            THEN LET tableNameStr == side.Source.Name
                     aliasStr == side.AsName
                     x1 == IF aliasStr # Empty
                           THEN [x EXCEPT !.AliasMap = MapPut(@, aliasStr, tableNameStr)]
                           ELSE x
                     found == InSeq(tableNameStr, x1.TableNames)
                 IN  IF ~found /\ tableNameStr # Empty
                     THEN [x1 EXCEPT !.TableNames = Append(@, tableNameStr)]
                     ELSE x1
            ELSE x
      [] side.type = "Join" -> extractTableNames(x, side)
      [] OTHER -> x

\* the walk taking the right side of a join before the left
extractTableNames_RightFirst(x, join) ==
    IF IsNil(join) THEN x
    ELSE LET x1 == IF IsNil(join.Right) THEN x ELSE extractTableSide(x, join.Right)
         IN  IF IsNil(join.Left) THEN x1 ELSE extractTableSide(x1, join.Left)

extractTableNames(x, join) ==
    IF IsNil(join) THEN x
    ELSE LET x1 == IF IsNil(join.Left) THEN x ELSE extractTableSide(x, join.Left)
         IN  IF IsNil(join.Right) THEN x1 ELSE extractTableSide(x1, join.Right)

\* the range loop over the alias map, visiting the aliases in the order ord
RECURSIVE SubstituteAliases(_, _, _)
SubstituteAliases(filter, aliasMap, ord) ==
    IF Len(ord) = 0 THEN filter
    ELSE SubstituteAliases(ReplaceAlias(filter, ord[1], aliasMap[ord[1]]),
                           aliasMap, Tail(ord))

\* the cleaning of a restored WHERE text, up to and with the alias substitution
ResolveAliases(text, aliasMap, ord) ==
    LET noQuotes == ReplaceAll(text, BackQuote, Empty)
        noCharset == StripCharset(noQuotes)
    IN  SubstituteAliases(noCharset, aliasMap, ord)

\* the cleaning with the keyword AND left in upper case
RenderWhere_KeepsAnd(text, aliasMap, ord) == ResolveAliases(text, aliasMap, ord)

\* the cleaning of a restored WHERE text
RenderWhere(text, aliasMap, ord) ==
    ReplaceAll(ResolveAliases(text, aliasMap, ord), KwAnd, SepAnd)

\* the rendering emptying the filter when Restore returns an error
extractWhereFilter_ClearsOnError(x, whereExpr, ord) ==
    IF IsNil(whereExpr) THEN x
    ELSE IF RestoreFails(whereExpr) THEN [x EXCEPT !.WhereFilter = Empty]
    ELSE [x EXCEPT !.WhereFilter = RenderWhere(Restore(whereExpr), x.AliasMap, ord)]

extractWhereFilter(x, whereExpr, ord) ==
    IF IsNil(whereExpr) \/ RestoreFails(whereExpr) THEN x
    ELSE [x EXCEPT !.WhereFilter = RenderWhere(Restore(whereExpr), x.AliasMap, ord)]

extractWhereFilterFromExpr(x, whereExpr, ord) ==
    IF IsNil(whereExpr) \/ RestoreFails(whereExpr) THEN x
    ELSE [x EXCEPT !.WhereFilter = RenderWhere(Restore(whereExpr), x.AliasMap, ord)]

SetPrimary(x) ==
    IF Len(x.TableNames) > 0 THEN [x EXCEPT !.PrimaryTable = x.TableNames[1]] ELSE x

AppendTable(x, table) ==
    IF ~IsNil(table) /\ table.Name # Empty
    THEN [x EXCEPT !.TableNames = Append(@, table.Name)]
    ELSE x

RECURSIVE AppendTables(_, _)
AppendTables(x, tables) ==
    IF Len(tables) = 0 THEN x
    ELSE AppendTables(AppendTable(x, tables[1]), Tail(tables))

\* Enter, up to the rendering of the WHERE clause: column name, action, tables
EnterTables(x, in) ==
    LET x0 == IF in.type = "ColumnName"
              THEN [x EXCEPT !.ColNames = Append(@, in.Name)]
              ELSE x
    IN  CASE in.type = "InsertStmt" ->
                extractTableNames([x0 EXCEPT !.Action = "INSERT"], in.Table)
          [] in.type = "UpdateStmt" ->
                IF IsNil(in.TableRefs) THEN [x0 EXCEPT !.Action = "UPDATE"]
                ELSE SetPrimary(extractTableNames([x0 EXCEPT !.Action = "UPDATE"],
                                                  in.TableRefs))
          [] in.type = "DeleteStmt" ->
                IF IsNil(in.TableRefs) THEN [x0 EXCEPT !.Action = "DELETE"]
                ELSE SetPrimary(extractTableNames([x0 EXCEPT !.Action = "DELETE"],
                                                  in.TableRefs))
          [] in.type = "SelectStmt" ->
                extractTableNames([x0 EXCEPT !.Action = "SELECT"], in.From)
          [] in.type = "AlterTableStmt" ->
                AppendTable([x0 EXCEPT !.Action = "ALTER"], in.Table)
          [] in.type = "CreateTableStmt" ->
                AppendTable([x0 EXCEPT !.Action = "CREATE"], in.Table)
          [] in.type = "DropTableStmt" ->
                AppendTables([x0 EXCEPT !.Action = "DROP"], in.Tables)
          [] in.type = "TruncateTableStmt" ->
                AppendTable([x0 EXCEPT !.Action = "TRUNCATE"], in.Table)
          [] OTHER -> x0

\* the WHERE clause Enter renders for a node, Nil when it renders none
WhereOf(in) ==
    IF in.type \in {"UpdateStmt", "DeleteStmt", "SelectStmt"} THEN in.Where ELSE Nil

NoRender ==
    [done |-> FALSE, expr |-> Nil, restored |-> Empty, aliasMap |-> EmptyMap, ord |-> <<>>,
     resolved |-> Empty, filter |-> Empty]

Rendering(x, whereExpr, ord) ==
    [done |-> TRUE, expr |-> whereExpr, restored |-> Restore(whereExpr), aliasMap |-> x.AliasMap,
     ord |-> ord, resolved |-> ResolveAliases(Restore(whereExpr), x.AliasMap, ord),
     filter |-> RenderWhere(Restore(whereExpr), x.AliasMap, ord)]

\* Enter, the rendering of the WHERE clause that ends the DML cases
EnterWhere(x, in, ord) ==
    CASE in.type = "UpdateStmt" -> extractWhereFilterFromExpr(x, in.Where, ord)
      [] in.type = "DeleteStmt" -> extractWhereFilter(x, in.Where, ord)
      [] in.type = "SelectStmt" -> extractWhereFilter(x, in.Where, ord)
      [] OTHER -> x

(***************************************************************************)
(* Standard output.  Each call of Println or Printf is one record: the     *)
(* statement and table of the loops it is made in, the format string (the  *)
(* line break written as a final "$") and the arguments as texts.          *)
(***************************************************************************)
Write(stmt, table, fmt, args) ==
    [stmt |-> stmt, table |-> table, fmt |-> fmt, args |-> args]

FmtNoTables == "# No tables found in SQL statement$"
FmtHelpHead == "# To get exact rows matching all JOIN conditions:$"
FmtHelpStep1 == "# Step 1: Get matching IDs$"
FmtHelpSelect == "# mysql -N -e \"SELECT e.id FROM %s e "
FmtHelpJoin == "JOIN %s %s ON <join_condition> "
FmtHelpWhere == "WHERE %s\" %s > /tmp/%s_ids.txt$"
FmtHelpStep2 == "# Step 2: Dump exact rows$"
FmtHelpDump == "# mysqldump%s --where=\"id IN ($(cat /tmp/%s_ids.txt ...))\" %s %s$"
FmtHelpSep == "#$"
FmtHelpPartial == "# Or use partial filter (may include extra rows):$"
FmtDumpWhere == "mysqldump%s --where=\"%s\" %s %s$"
FmtDump == "mysqldump%s %s %s$"
FmtSeparator == "---$"
FmtStatement == "Statement %d:$"
FmtColumns == "Columns: %v$"
FmtTables == "Tables: %v$"
FmtAction == "Action: %s$"
FmtWhere == "WHERE filter: %s$"

(***************************************************************************)
(* runDump: connection options and the body of the loop over statements.   *)
(***************************************************************************)
DatabaseName == <<"d", "a", "t", "a", "b", "a", "s", "e", "_", "n", "a", "m", "e">>

DefaultGlobals ==
    [user |-> Empty, password |-> Empty, host |-> Empty, ip |-> Empty,
     database |-> DatabaseName]

TrimGlobals(g) ==
    [user |-> TrimSpace(g.user), password |-> TrimSpace(g.password),
     host |-> TrimSpace(g.host), ip |-> TrimSpace(g.ip),
     database |-> TrimSpace(g.database)]

ConnTarget(g) == IF g.ip # Empty THEN g.ip ELSE IF g.host # Empty THEN g.host ELSE Empty

\* the options with the user put before the target
ConnOpts_UserFirst(g) ==
    (IF g.user # Empty THEN <<" ", "-", "u", " ">> \o g.user ELSE Empty)
    \o (IF ConnTarget(g) # Empty THEN <<" ", "-", "h", " ">> \o ConnTarget(g) ELSE Empty)
    \o (IF g.password # Empty
        THEN <<" ", "-", "-", "p", "a", "s", "s", "w", "o", "r", "d", "=">> \o g.password
        ELSE Empty)

ConnOpts(g) ==
    (IF ConnTarget(g) # Empty THEN <<" ", "-", "h", " ">> \o ConnTarget(g) ELSE Empty)
    \o (IF g.user # Empty THEN <<" ", "-", "u", " ">> \o g.user ELSE Empty)
    \o (IF g.password # Empty
        THEN <<" ", "-", "-", "p", "a", "s", "s", "w", "o", "r", "d", "=">> \o g.password
        ELSE Empty)

\* strings.ToLower on the letters of the model's names
UpperCase == {"T", "U", "E"}
LowerOf(c) == CASE c = "T" -> "t" [] c = "U" -> "u" [] c = "E" -> "e" [] OTHER -> c
ToLower(s) == [k \in 1..Len(s) |-> IF s[k] \in UpperCase THEN LowerOf(s[k]) ELSE s[k]]

IsWrite(action) == action = "UPDATE" \/ action = "DELETE"

TablesToDump(tableNames, action, primaryTable) ==
    IF IsWrite(action) /\ primaryTable # Empty THEN <<primaryTable>> ELSE tableNames

\* the filter with every table's prefix removed, table after table
RECURSIVE AllConditionsFilter(_, _)
AllConditionsFilter(filter, tableNames) ==
    IF Len(tableNames) = 0 THEN filter
    ELSE AllConditionsFilter(ReplaceAll(filter, tableNames[1] \o Dot, Empty),
                             Tail(tableNames))

\* the alias the lookup query gives a joined table; slicing two bytes off a
\* one-byte name is a run-time panic
AliasPanics(tbl, tableName) ==
    /\ <<ToLower(tbl)[1]>> = <<ToLower(tableName)[1]>>
    /\ Len(tbl) < 2

JoinAlias(tbl, tableName) ==
    IF <<ToLower(tbl)[1]>> = <<ToLower(tableName)[1]>>
    THEN SubSeq(ToLower(tbl), 1, 2)
    ELSE <<ToLower(tbl)[1]>>

\* the loop printing the JOINs of the lookup query: the writes made and whether
\* the loop ended in a panic
RECURSIVE HelpJoins(_, _, _)
HelpJoins(i, tbls, tableName) ==
    IF Len(tbls) = 0 THEN [writes |-> <<>>, panic |-> FALSE]
    ELSE IF tbls[1] = tableName THEN HelpJoins(i, Tail(tbls), tableName)
    ELSE IF AliasPanics(tbls[1], tableName) THEN [writes |-> <<>>, panic |-> TRUE]
    ELSE LET rest == HelpJoins(i, Tail(tbls), tableName)
         IN  [writes |-> <<Write(i, tableName, FmtHelpJoin,
                                 <<tbls[1], JoinAlias(tbls[1], tableName)>>)>>
                         \o rest.writes,
              panic |-> rest.panic]

\* the helper printed for an empty per-table filter as well
NeedsHelp_EmptyFilterToo(x, tableName, tableSpecificFilter) ==
    /\ IsWrite(x.Action)
    /\ tableName = x.PrimaryTable
    /\ Len(x.TableNames) > 1
    /\ AllConditionsFilter(x.WhereFilter, x.TableNames) # tableSpecificFilter

\* whether the cross-table helper is printed for a table
NeedsHelp(x, tableName, tableSpecificFilter) ==
    /\ IsWrite(x.Action)
    /\ tableName = x.PrimaryTable
    /\ Len(x.TableNames) > 1
    /\ AllConditionsFilter(x.WhereFilter, x.TableNames) # tableSpecificFilter
    /\ tableSpecificFilter # Empty

\* the export directive written without looking at the filter
DumpLine_NeverWhere(i, g, tableName, tableSpecificFilter) ==
    Write(i, tableName, FmtDump, <<ConnOpts(g), g.database, tableName>>)

\* the export directive of a table
DumpLine(i, g, tableName, tableSpecificFilter) ==
    IF tableSpecificFilter # Empty
    THEN Write(i, tableName, FmtDumpWhere,
               <<ConnOpts(g), tableSpecificFilter, g.database, tableName>>)
    ELSE Write(i, tableName, FmtDump, <<ConnOpts(g), g.database, tableName>>)

\* the body of the loop over tablesToDump for one table
DumpTable(x, i, g, tableName) ==
    LET tableSpecificFilter == FilterWhereForTable(x.WhereFilter, tableName, x.TableNames)
        joins == HelpJoins(i, x.TableNames, tableName)
        head == <<Write(i, tableName, FmtHelpHead, <<>>),
                  Write(i, tableName, FmtHelpStep1, <<>>),
                  Write(i, tableName, FmtHelpSelect, <<tableName>>)>>
        tail == <<Write(i, tableName, FmtHelpWhere,
                        <<x.WhereFilter, g.database, tableName>>),
                  Write(i, tableName, FmtHelpStep2, <<>>),
                  Write(i, tableName, FmtHelpDump,
                        <<ConnOpts(g), tableName, g.database, tableName>>),
                  Write(i, tableName, FmtHelpSep, <<>>),
                  Write(i, tableName, FmtHelpPartial, <<>>)>>
        dump == DumpLine(i, g, tableName, tableSpecificFilter)
    IN  IF NeedsHelp(x, tableName, tableSpecificFilter)
        THEN IF joins.panic
             THEN [writes |-> head \o joins.writes, panic |-> TRUE]
             ELSE [writes |-> head \o joins.writes \o tail \o <<dump>>, panic |-> FALSE]
        ELSE [writes |-> <<dump>>, panic |-> FALSE]

\* the loop over tablesToDump
RECURSIVE DumpTables(_, _, _, _)
DumpTables(x, i, g, tables) ==
    IF Len(tables) = 0 THEN [writes |-> <<>>, panic |-> FALSE]
    ELSE LET first == DumpTable(x, i, g, tables[1])
             rest == DumpTables(x, i, g, Tail(tables))
         IN  IF first.panic THEN first
             ELSE [writes |-> first.writes \o rest.writes, panic |-> rest.panic]

\* the loop body going to the table loop without the test for no tables
DumpBody_NoNotice(x, i, g) ==
    DumpTables(x, i, g, TablesToDump(x.TableNames, x.Action, x.PrimaryTable))

\* the body of runDump's loop over the statements, after Extract has returned x
DumpBody(x, i, g) ==
    IF Len(x.TableNames) = 0
    THEN [writes |-> <<Write(i, Empty, FmtNoTables, <<>>)>>, panic |-> FALSE]
    ELSE DumpTables(x, i, g, TablesToDump(x.TableNames, x.Action, x.PrimaryTable))

(***************************************************************************)
(* runParse: the body of the loop over the statements.                     *)
(***************************************************************************)
\* %d of a statement number
Digits == <<"0", "1", "2", "3", "4", "5", "6", "7", "8", "9">>
RECURSIVE Itoa(_)
Itoa(n) == IF n < 10 THEN <<Digits[n + 1]>> ELSE Itoa(n \div 10) \o <<Digits[(n % 10) + 1]>>

\* %v of a []string
ListText(names) == <<"[">> \o Join(names, <<" ">>) \o <<"]">>

\* the report with the statements numbered from 0
ParseBody_ZeroBased(x, i, n) ==
    (IF n > 1
     THEN (IF i > 1 THEN <<Write(i, Empty, FmtSeparator, <<>>)>> ELSE <<>>)
          \o <<Write(i, Empty, FmtStatement, <<Itoa(i - 1)>>)>>
     ELSE <<>>)
    \o <<Write(i, Empty, FmtColumns, <<ListText(x.ColNames)>>),
         Write(i, Empty, FmtTables, <<ListText(x.TableNames)>>),
         Write(i, Empty, FmtAction, <<<<x.Action>>>>)>>
    \o (IF x.WhereFilter # Empty
        THEN <<Write(i, Empty, FmtWhere, <<x.WhereFilter>>)>>
        ELSE <<>>)

ParseBody(x, i, n) ==
    (IF n > 1
     THEN (IF i > 1 THEN <<Write(i, Empty, FmtSeparator, <<>>)>> ELSE <<>>)
          \o <<Write(i, Empty, FmtStatement, <<Itoa(i)>>)>>
     ELSE <<>>)
    \o <<Write(i, Empty, FmtColumns, <<ListText(x.ColNames)>>),
         Write(i, Empty, FmtTables, <<ListText(x.TableNames)>>),
         Write(i, Empty, FmtAction, <<<<x.Action>>>>)>>
    \o (IF x.WhereFilter # Empty
        THEN <<Write(i, Empty, FmtWhere, <<x.WhereFilter>>)>>
        ELSE <<>>)

(***************************************************************************)
(* Inputs.  Table names t, u and tu (u. ends tu., and t and tu share their *)
(* first letter); aliases a (nobody's name) and u (the name of a table).   *)
(***************************************************************************)
NameT == <<"t">>
NameU == <<"u">>
NameTU == <<"t", "u">>
Names == {NameT, NameU, NameTU}
AliasA == <<"a">>
ColX1 == <<"x">>
One == IntValue(<<"1">>)

\* sequences over S of length lo..hi
SeqsOf(S, lo, hi) == UNION {[1..n -> S] : n \in lo..hi}

LeafT == TableSource(TableName(NameT), Empty)
LeafUasA == TableSource(TableName(NameU), AliasA)
LeafTasU == TableSource(TableName(NameT), NameU)
LeafTU == TableSource(TableName(NameTU), Empty)
LeafPool == {LeafT, LeafUasA, LeafTasU, LeafTU}

Equals(l, r) == BinaryOperationExpr("EQ", l, r)

\* FROM clauses: one table, two joined tables, and the two nestings of three
JoinTrees ==
    {JoinNode(l, Nil, Nil) : l \in LeafPool}
    \cup {JoinNode(lr[1], lr[2], Nil) :
             lr \in {p \in LeafPool \X LeafPool : p[1] # p[2]}}
    \cup {JoinNode(JoinNode(LeafT, LeafUasA,
                            Equals(ColumnNameExpr(NameT, ColX1),
                                   ColumnNameExpr(AliasA, ColX1))),
                   LeafTasU, Nil),
          JoinNode(LeafT, JoinNode(LeafUasA, LeafTU, Nil), Nil)}

RECURSIVE Leaves(_)
Leaves(n) ==
    CASE n.type = "TableSource" -> {n}
      [] n.type = "Join" -> Leaves(n.Left) \cup Leaves(n.Right)
      [] OTHER -> {}

\* the qualifiers a column of the statement may carry: none, a table, an alias
Qualifiers(join) ==
    {Empty} \cup {l.Source.Name : l \in Leaves(join)}
            \cup {l.AsName : l \in Leaves(join)}

\* SELECT a.x FROM u AS a
SubNoWhere ==
    SelectStmt(<<ColumnNameExpr(AliasA, ColX1)>>, JoinNode(LeafUasA, Nil, Nil), Nil)
\* SELECT x FROM tu WHERE x=1
SubWhere ==
    SelectStmt(<<ColumnNameExpr(Empty, ColX1)>>, JoinNode(LeafTU, Nil, Nil),
               Equals(ColumnNameExpr(Empty, ColX1), One))

Conditions(join) ==
    {Equals(ColumnNameExpr(q, ColX1), One) : q \in Qualifiers(join)}
    \cup {Equals(ColumnNameExpr(Empty, ColX1), StringValue(<<"s">>)),
          PatternInExpr(ColumnNameExpr(Empty, ColX1), SubNoWhere),
          PatternInExpr(ColumnNameExpr(Empty, ColX1), SubWhere)}

RECURSIVE Conjunction(_)
Conjunction(conds) ==
    IF Len(conds) = 1 THEN conds[1]
    ELSE BinaryOperationExpr("AND", Conjunction(SubSeq(conds, 1, Len(conds) - 1)),
                             conds[Len(conds)])

Wheres(join) ==
    {Nil} \cup {Conjunction(cs) : cs \in SeqsOf(Conditions(join), 1, MaxConds)}

\* string literals whose text the cleaning of a WHERE clause could touch:
\* 's' behind another charset, ' AND AND ', 'a.x', and one with a backquote
Latin1 == <<"l", "a", "t", "i", "n", "1">>
Literals ==
    {CharsetValue(Latin1, <<"s">>),
     StringValue(<<" ", "A", "N", "D", " ", "A", "N", "D", " ">>),
     StringValue(<<"a", ".", "x">>),
     StringValue(BackQuote \o <<"s">>)}

\* a comparison whose operator Restore has no text for
BadCondition == BinaryOperationExpr("BAD", ColumnNameExpr(AliasA, ColX1), One)

\* WHERE a.x = <literal>, alone and followed by AND t.x=1; the bad comparison
RenderWheres ==
    {Equals(ColumnNameExpr(AliasA, ColX1), lit) : lit \in Literals}
    \cup {Conjunction(<<Equals(ColumnNameExpr(AliasA, ColX1), lit),
                        Equals(ColumnNameExpr(NameT, ColX1), One)>>) :
             lit \in Literals}
    \cup {BadCondition}

Assignment(column, expr) == [type |-> "Assignment", Column |-> column, Expr |-> expr]
SetX == <<Assignment(ColumnName(Empty, ColX1), One)>>
\* SET x = (SELECT x FROM tu WHERE x=1)
SetSub == <<Assignment(ColumnName(Empty, ColX1), SubWhere)>>

\* SET x = (SELECT x FROM tu WHERE a.x BAD 1)
SetSubBad ==
    <<Assignment(ColumnName(Empty, ColX1),
                 SelectStmt(<<ColumnNameExpr(Empty, ColX1)>>,
                            JoinNode(LeafTU, Nil, Nil), BadCondition))>>

\* statements over t JOIN u AS a with the WHERE clauses above, an UPDATE whose
\* subquery cannot be restored, and UPDATE u AS a JOIN t JOIN tu with one
\* condition for each table
RenderStatements ==
    {SelectStmt(<<>>, JoinNode(LeafT, LeafUasA, Nil), w) : w \in RenderWheres}
    \cup {UpdateStmt(JoinNode(LeafT, LeafUasA, Nil), SetX, w) : w \in RenderWheres}
    \cup {DeleteStmt(JoinNode(LeafT, LeafUasA, Nil), w) : w \in RenderWheres}
    \cup {UpdateStmt(JoinNode(LeafT, Nil, Nil), SetSubBad,
                     Equals(ColumnNameExpr(Empty, ColX1), One)),
          UpdateStmt(JoinNode(JoinNode(LeafUasA, LeafT, Nil), LeafTU, Nil), SetX,
                     Conjunction(<<Equals(ColumnNameExpr(AliasA, ColX1), One),
                                   Equals(ColumnNameExpr(NameT, ColX1), One),
                                   Equals(ColumnNameExpr(NameTU, ColX1), One)>>))}

\* a FROM clause with a WHERE clause over its qualifiers
FromWhere == UNION {{<<j, w>> : w \in Wheres(j)} : j \in JoinTrees}

Statements ==
    {SelectStmt(<<>>, Nil, Nil)}
    \cup {SelectStmt(<<>>, jw[1], jw[2]) : jw \in FromWhere}
    \cup {UpdateStmt(jw[1], SetX, jw[2]) : jw \in FromWhere}
    \cup {UpdateStmt(j, SetSub, Nil) : j \in JoinTrees}
    \cup {DeleteStmt(jw[1], jw[2]) : jw \in FromWhere}
    \cup {InsertStmt(JoinNode(TableSource(TableName(n), Empty), Nil, Nil),
                     <<ColumnName(Empty, ColX1)>>, sel) :
             n \in Names, sel \in {Nil, SubNoWhere, SubWhere}}
    \cup {AlterTableStmt(TableName(n), <<ColumnName(Empty, ColX1)>>) : n \in Names}
    \cup {CreateTableStmt(TableName(n), <<ColumnName(Empty, ColX1)>>, sel) :
             n \in Names, sel \in {Nil, SubWhere}}
    \cup RenderStatements
    \cup {TruncateTableStmt(TableName(n)) : n \in Names}
    \cup {DropTableStmt(ts) : ts \in SeqsOf({TableName(n) : n \in Names}, 1, MaxDrop)}

\* the statements multi-statement inputs are made of:
\*   SELECT 1;  SELECT * FROM t WHERE x=1;
\*   UPDATE t JOIN u AS a SET x=1 WHERE a.x=1 AND t.x=1;  DROP TABLE t, u;
\*   SELECT * FROM t AS u JOIN u AS a WHERE a.x=1
BatchStatements ==
    {SelectStmt(<<>>, Nil, Nil),
     SelectStmt(<<>>, JoinNode(LeafT, Nil, Nil),
                Equals(ColumnNameExpr(Empty, ColX1), One)),
     UpdateStmt(JoinNode(LeafT, LeafUasA, Nil), SetX,
                Conjunction(<<Equals(ColumnNameExpr(AliasA, ColX1), One),
                              Equals(ColumnNameExpr(NameT, ColX1), One)>>)),
     DropTableStmt(<<TableName(NameT), TableName(NameU)>>),
     SelectStmt(<<>>, JoinNode(LeafTasU, LeafUasA, Nil),
                Equals(ColumnNameExpr(AliasA, ColX1), One))}

CustomGlobals ==
    [user |-> <<"r">>, password |-> <<"p">>, host |-> <<"h">>, ip |-> <<"1">>,
     database |-> <<"d", "b">>]

\* the flags of a command line: a value for each flag that is given
FlagNames == {"user", "password", "host", "ip", "database"}
NoFlags == [f \in {} |-> Empty]
AllFlags == [f \in FlagNames |-> CustomGlobals[f]]
\* values with blanks around them, and values of blanks only
PaddedFlags ==
    [user |-> <<" ", "r">>, password |-> <<" ">>, host |-> <<"h", " ">>,
     ip |-> <<" ">>, database |-> <<" ", "d", "b">>]
FlagSets == {[f \in S |-> CustomGlobals[f]] : S \in SUBSET FlagNames} \cup {PaddedFlags}

\* flag parsing: a flag that is given sets its variable, the others keep theirs
SetFlags(g, fl) == [f \in DOMAIN g |-> IF f \in DOMAIN fl THEN fl[f] ELSE g[f]]

Configs == {SetFlags(DefaultGlobals, fl) : fl \in FlagSets}

\* the inputs of an invocation that follows another one in the same process:
\* SELECT * FROM t WHERE x=1, or a parse error
FollowUps ==
    [stmts : {<<SelectStmt(<<>>, JoinNode(LeafT, Nil, Nil),
                           Equals(ColumnNameExpr(Empty, ColX1), One))>>},
     err : BOOLEAN]
FollowFlags == {NoFlags, AllFlags}

NoCall ==
    [whereFilter |-> Empty, tableName |-> Empty, allTables |-> <<>>,
     result |-> Empty, returned |-> TRUE]

(***************************************************************************)
(* The commands.                                                           *)
(***************************************************************************)
Init ==
    /\ \/ /\ cmd = "dump"
          /\ sql \in {[stmts |-> <<s>>, err |-> FALSE] : s \in Statements}
          /\ flags = NoFlags
       \/ /\ cmd \in {"parse", "dump"}
          /\ sql \in [stmts : SeqsOf(BatchStatements, 0, MaxStmts), err : BOOLEAN]
          /\ flags \in FlagSets
    /\ globals = SetFlags(DefaultGlobals, flags)
    /\ history = <<>>
    /\ stmtNodes = <<>>
    /\ pc = "start"
    /\ idx = 0
    /\ todo = <<>>
    /\ v = NewColX
    /\ out = <<>>
    /\ lastRender = NoRender
    /\ call = NoCall

\* the command going on to the statements whatever the parser reports
ParseAll_IgnoresError ==
    /\ pc = "start"
    /\ stmtNodes' = sql.stmts
    /\ globals' = IF cmd = "dump" THEN TrimGlobals(globals) ELSE globals
    /\ idx' = 1
    /\ pc' = "loop"
    /\ UNCHANGED <<flags, history, cmd, sql, todo, v, out, lastRender, call>>

\* runParse / runDump up to the loop: ParseAll, and runDump's trimming of the flags
ParseAll ==
    /\ pc = "start"
    /\ IF sql.err
       THEN /\ pc' = "error"
            /\ UNCHANGED <<stmtNodes, idx, globals>>
       ELSE /\ stmtNodes' = sql.stmts
            /\ globals' = IF cmd = "dump" THEN TrimGlobals(globals) ELSE globals
            /\ idx' = 1
            /\ pc' = "loop"
    /\ UNCHANGED <<flags, history, cmd, sql, todo, v, out, lastRender, call>>

\* Extract: a fresh visitor, handed to the tree's Accept
Extract ==
    /\ pc = "loop"
    /\ idx <= Len(stmtNodes)
    /\ v' = NewColX
    /\ todo' = Accept(stmtNodes[idx])
    /\ pc' = "visit"
    /\ lastRender' = NoRender
    /\ UNCHANGED <<flags, history, cmd, sql, stmtNodes, idx, out, globals, call>>

\* ColX.Enter on the next node of the walk
Enter ==
    /\ pc = "visit"
    /\ todo # <<>>
    /\ LET x1 == EnterTables(v, Head(todo))
       IN  \E ord \in Orders(DOMAIN x1.AliasMap) :
               /\ v' = EnterWhere(x1, Head(todo), ord)
               /\ lastRender' = IF \/ IsNil(WhereOf(Head(todo)))
                                    \/ RestoreFails(WhereOf(Head(todo)))
                                 THEN lastRender
                                 ELSE Rendering(x1, WhereOf(Head(todo)), ord)
    /\ todo' = Tail(todo)
    /\ UNCHANGED <<flags, history, cmd, sql, stmtNodes, pc, idx, out, globals, call>>

\* runDump: the loop body after Extract has returned
DumpStatement ==
    /\ pc = "visit"
    /\ todo = <<>>
    /\ cmd = "dump"
    /\ LET r == DumpBody(v, idx, globals)
       IN  /\ out' = out \o r.writes
           /\ IF r.panic
              THEN pc' = "panic" /\ idx' = idx
              ELSE pc' = "loop" /\ idx' = idx + 1
    /\ UNCHANGED <<flags, history, cmd, sql, stmtNodes, todo, v, globals, lastRender, call>>

\* runParse: the loop body after Extract has returned
ReportStatement ==
    /\ pc = "visit"
    /\ todo = <<>>
    /\ cmd = "parse"
    /\ out' = out \o ParseBody(v, idx, Len(stmtNodes))
    /\ idx' = idx + 1
    /\ pc' = "loop"
    /\ UNCHANGED <<flags, history, cmd, sql, stmtNodes, todo, v, globals, lastRender, call>>

\* the loop over the statements ends and the command returns nil
Return ==
    /\ pc = "loop"
    /\ idx > Len(stmtNodes)
    /\ pc' = "done"
    /\ UNCHANGED <<flags, history, cmd, sql, stmtNodes, idx, todo, v, out, globals, lastRender, call>>

\* ResetGlobals leaving the database name as it is
ResetGlobals_KeepsDatabase ==
    /\ pc \in {"done", "error"}
    /\ globals' = [DefaultGlobals EXCEPT !.database = globals.database]
    /\ pc' = "reset"
    /\ UNCHANGED <<flags, history, cmd, sql, stmtNodes, idx, todo, v, out, lastRender,
                   call>>

\* ResetGlobals, called between two invocations
ResetGlobals ==
    /\ pc \in {"done", "error"}
    /\ globals' = DefaultGlobals
    /\ pc' = "reset"
    /\ UNCHANGED <<flags, history, cmd, sql, stmtNodes, idx, todo, v, out, lastRender,
                   call>>

\* rootCmd.Execute of a further invocation in the same process: the flags given
\* set their variables, and the command starts with a new standard output
Execute ==
    /\ pc = "reset"
    /\ Len(history) < MaxRuns - 1
    /\ history' = Append(history, flags)
    /\ flags' \in FollowFlags
    /\ globals' = SetFlags(globals, flags')
    /\ cmd' = "dump"
    /\ sql' \in FollowUps
    /\ stmtNodes' = <<>>
    /\ pc' = "start"
    /\ idx' = 0
    /\ todo' = <<>>
    /\ v' = NewColX
    /\ out' = <<>>
    /\ lastRender' = NoRender
    /\ UNCHANGED call

Next ==
    \/ ParseAll
    \/ Extract
    \/ Enter
    \/ DumpStatement
    \/ ReportStatement
    \/ Return
    \/ ResetGlobals
    \/ Execute

Spec == Init /\ [][Next]_vars

(***************************************************************************)
(* FilterWhereForTable called directly, as the package's tests call it.    *)
(***************************************************************************)
\* condition texts: x=1, t.x=1, u.x=1, tu.x=1, t.x=u.x, tt..x (removing t.
\* leaves t.x) and t.x=1 behind a blank
FilterConds ==
    {<<"x", "=", "1">>,
     <<"t", ".", "x", "=", "1">>,
     <<"u", ".", "x", "=", "1">>,
     <<"t", "u", ".", "x", "=", "1">>,
     <<"t", ".", "x", "=", "u", ".", "x">>,
     <<"t", "t", ".", ".", "x">>,
     <<" ", "t", ".", "x", "=", "1">>}

Filters == {Join(cs, SepAnd) : cs \in SeqsOf(FilterConds, 0, MaxFilterConds)}

TableLists ==
    {ts \in SeqsOf(Names, 0, MaxFilterTables) :
        \A i, j \in 1..Len(ts) : i # j => ts[i] # ts[j]}

FilterInit ==
    /\ call \in [whereFilter : Filters, tableName : Names, allTables : TableLists,
                 result : {Empty}, returned : {FALSE}]
    /\ cmd = "none"
    /\ sql = [stmts |-> <<>>, err |-> FALSE]
    /\ stmtNodes = <<>>
    /\ pc = "done"
    /\ idx = 0
    /\ todo = <<>>
    /\ v = NewColX
    /\ out = <<>>
    /\ globals = DefaultGlobals
    /\ lastRender = NoRender
    /\ flags = NoFlags
    /\ history = <<>>

CallFilterWhereForTable ==
    /\ ~call.returned
    /\ call' = [call EXCEPT
                  !.result = FilterWhereForTable(call.whereFilter, call.tableName,
                                                 call.allTables),
                  !.returned = TRUE]
    /\ UNCHANGED <<flags, history, cmd, sql, stmtNodes, pc, idx, todo, v, out, globals, lastRender>>

FilterNext == CallFilterWhereForTable

FilterSpec == FilterInit /\ [][FilterNext]_vars

(***************************************************************************)
(* Properties.                                                             *)
(***************************************************************************)
\* the statement whose loop body ran last, 0 when none has: Extract has returned
\* for it, v holds what it returned and out ends with what was written for it
Done == IF pc = "panic" THEN idx ELSE IF pc \in {"loop", "done"} THEN idx - 1 ELSE 0
Returned == Done >= 1
Root == stmtNodes[Done]

\* the writes of out made for statement i with one of the formats fmts
WritesOf(i, fmts) == SelectSeq(out, LAMBDA w : w.stmt = i /\ w.fmt \in fmts)

\* the tables of the export directives written for statement i, in order
Exported(i) ==
    LET ws == WritesOf(i, {FmtDump, FmtDumpWhere})
    IN  [k \in 1..Len(ws) |-> ws[k].table]

SeqToSet(s) == {s[k] : k \in 1..Len(s)}

\* the conditions of a filter: its pieces between the separators, trimmed
CondsOf(filter) ==
    LET parts == Split(filter, SepAnd) IN {TrimSpace(parts[k]) : k \in 1..Len(parts)}

\* text c names table (or alias) n as the qualifier of a column
QualifiedBy(c, n) == \E i \in 1..Len(c) : AliasMatchAt(c, i, n)

\* deleting the occurrences of prefix from c leaves a new occurrence behind
Splices(c, prefix) == Contains(ReplaceAll(c, prefix, Empty), prefix)

\* C1 as stated: the text FilterWhereForTable returns for table T never
\* contains "T.", for table lists of every length, one table included.
C1_NoTargetPrefix ==
    call.returned => ~Contains(call.result, call.tableName \o Dot)

\* C1: with two tables or more in the list, the text FilterWhereForTable
\* returns for table T contains no "T.", unless deleting "T." from a condition
\* of the filter brings a new "T." together (as in "TT..x").
C1_NoTargetPrefixMultiTable ==
    (/\ call.returned
     /\ Len(call.allTables) >= 2
     /\ \A c \in CondsOf(call.whereFilter) : ~Splices(c, call.tableName \o Dot))
    => ~Contains(call.result, call.tableName \o Dot)

C1_Witness ==
    /\ call.returned
    /\ Len(call.allTables) >= 2
    /\ \A c \in CondsOf(call.whereFilter) : ~Splices(c, call.tableName \o Dot)
    /\ Contains(call.whereFilter, call.tableName \o Dot)
    /\ Contains(call.whereFilter, SepAnd)
    /\ call.result # Empty

\* C2: with exactly one table in the list, FilterWhereForTable returns the
\* filter it was given, character for character.
C2_SingleTableUnchanged ==
    (call.returned /\ Len(call.allTables) = 1) => call.result = call.whereFilter

C2_Witness ==
    /\ call.returned
    /\ Len(call.allTables) = 1
    /\ Contains(call.whereFilter, call.tableName \o Dot)
    /\ Contains(call.whereFilter, SepAnd)
    /\ call.result = call.whereFilter

\* C3: in a statement of several tables, every condition of the filter exported
\* for table T is a condition of the WHERE filter that no other table of the
\* statement qualifies, with "T." removed; a condition qualified by another
\* table gives the result nothing.
C3_OnlyOwnConditions ==
    (cmd = "dump" /\ Returned /\ Len(v.TableNames) > 1) =>
        \A k \in 1..Len(out) :
            (out[k].stmt = Done /\ out[k].fmt = FmtDumpWhere) =>
                \A piece \in CondsOf(out[k].args[2]) :
                    \E c \in CondsOf(v.WhereFilter) :
                        /\ \A other \in SeqToSet(v.TableNames) \ {out[k].table} :
                               ~QualifiedBy(c, other)
                        /\ piece = ReplaceAll(c, out[k].table \o Dot, Empty)

\* C4: after the alias substitution of a rendering, substituting again (in any
\* order) changes nothing, and no "<alias>." of the alias map is left.
C4_SubstitutionIdempotent ==
    lastRender.done =>
        /\ \A ord \in Orders(DOMAIN lastRender.aliasMap) :
               SubstituteAliases(lastRender.resolved, lastRender.aliasMap, ord)
                   = lastRender.resolved
        /\ \A alias \in DOMAIN lastRender.aliasMap :
               ~QualifiedBy(lastRender.resolved, alias)

\* C5: the filter a rendering gives is the one every order of visiting the
\* alias map gives.
C5_OrderIndependent ==
    lastRender.done =>
        \A ord \in Orders(DOMAIN lastRender.aliasMap) :
            RenderWhere(lastRender.restored, lastRender.aliasMap, ord)
                = lastRender.filter

\* C6: no table name occurs twice in the tables Extract returns.
C6_TablesUnique ==
    Returned =>
        \A i, j \in 1..Len(v.TableNames) : i # j => v.TableNames[i] # v.TableNames[j]

ActionOf(type) ==
    CASE type = "InsertStmt" -> "INSERT"
      [] type = "UpdateStmt" -> "UPDATE"
      [] type = "DeleteStmt" -> "DELETE"
      [] type = "SelectStmt" -> "SELECT"
      [] type = "AlterTableStmt" -> "ALTER"
      [] type = "CreateTableStmt" -> "CREATE"
      [] type = "DropTableStmt" -> "DROP"
      [] type = "TruncateTableStmt" -> "TRUNCATE"

\* C7: the action Extract returns is the label of the statement's kind, the
\* kind of the root of its tree.
C7_ActionOfRoot == Returned => v.Action = ActionOf(Root.type)

\* C8: the primary table Extract returns is set only with the action UPDATE or
\* DELETE, and then it is the first of the tables returned.
C8_PrimaryTable ==
    (Returned /\ v.PrimaryTable # Empty) =>
        /\ IsWrite(v.Action)
        /\ Len(v.TableNames) > 0
        /\ v.PrimaryTable = v.TableNames[1]

\* C9: a statement without a WHERE clause of its own gets an empty WHERE
\* filter, and no export directive written for it has a --where clause.
C9_NoWhereNoFilter ==
    (Returned /\ IsNil(WhereOf(Root))) =>
        /\ v.WhereFilter = Empty
        /\ WritesOf(Done, {FmtDumpWhere}) = <<>>

\* C10: the tables exported for a statement whose export ran to its end are
\* the primary table alone when the action is UPDATE or DELETE and a primary
\* table is set, and else all its tables in order; of an UPDATE or DELETE over
\* several tables no table but the primary one is exported.
C10_TablesExported ==
    (cmd = "dump" /\ Returned /\ pc # "panic") =>
        /\ Exported(Done) = IF IsWrite(v.Action) /\ v.PrimaryTable # Empty
                            THEN <<v.PrimaryTable>>
                            ELSE v.TableNames
        /\ (Root.type \in {"UpdateStmt", "DeleteStmt"} /\ Len(v.TableNames) > 1) =>
               SeqToSet(Exported(Done)) \subseteq {v.PrimaryTable}

\* the formats of the export directives and of the lines of the helper block
Directives == {FmtDump, FmtDumpWhere}
HelpFmts ==
    {FmtHelpHead, FmtHelpStep1, FmtHelpSelect, FmtHelpJoin, FmtHelpWhere,
     FmtHelpStep2, FmtHelpDump, FmtHelpSep, FmtHelpPartial}

\* the tables runDump exports for the facts x
ToExport(x) ==
    IF Len(x.TableNames) = 0 THEN <<>>
    ELSE TablesToDump(x.TableNames, x.Action, x.PrimaryTable)

\* the per-table filter runDump computes for table T of the facts x
PerTableFilter(x, T) == FilterWhereForTable(x.WhereFilter, T, x.TableNames)

\* C11: in export-plan mode the lines written for a statement all come before
\* the lines of the next statement, and the export directives of a statement
\* are one per table to export, in the order of the tables.
C11_DirectivesInOrder ==
    cmd = "dump" =>
        /\ \A j, k \in 1..Len(out) : j < k => out[j].stmt <= out[k].stmt
        /\ Returned => Exported(Done) = ToExport(v)

\* C12: an export directive has a --where clause exactly when the per-table
\* filter of its table is not empty, and the clause holds that filter.
C12_WhereIffFilter ==
    (cmd = "dump" /\ Returned) =>
        \A k \in 1..Len(out) :
            (out[k].stmt = Done /\ out[k].fmt \in Directives) =>
                LET filter == PerTableFilter(v, out[k].table)
                IN  /\ out[k].fmt = FmtDumpWhere <=> filter # Empty
                    /\ out[k].fmt = FmtDumpWhere => out[k].args[2] = filter

C12_Witness ==
    /\ cmd = "dump"
    /\ Returned
    /\ Len(v.TableNames) > 1
    /\ v.WhereFilter # Empty
    /\ \E k \in 1..Len(out) :
           /\ out[k].stmt = Done
           /\ out[k].fmt = FmtDumpWhere
           /\ out[k].args[2] # v.WhereFilter
    /\ \E k \in 1..Len(out) : out[k].stmt = Done /\ out[k].fmt = FmtDump

\* the helper block was begun for table T of statement i
HelpEmitted(i, T) ==
    \E k \in 1..Len(out) :
        out[k].stmt = i /\ out[k].table = T /\ out[k].fmt = FmtHelpHead

\* C13: the helper block is written for a table exactly when the action is
\* UPDATE or DELETE, the table is the primary table, the statement has several
\* tables, the per-table filter is not empty and differs from the WHERE filter
\* with every table prefix removed; its lines are followed at once by the one
\* export directive of that table.
C13_HelperBlock ==
    (cmd = "dump" /\ Returned) =>
        /\ \A T \in Names :
               HelpEmitted(Done, T) <=>
                   /\ IsWrite(v.Action)
                   /\ T = v.PrimaryTable
                   /\ Len(v.TableNames) > 1
                   /\ PerTableFilter(v, T) # Empty
                   /\ AllConditionsFilter(v.WhereFilter, v.TableNames)
                          # PerTableFilter(v, T)
        /\ \A k \in 1..Len(out) :
               (out[k].stmt = Done /\ out[k].fmt = FmtHelpHead) =>
                   \E m \in (k + 1)..Len(out) :
                       /\ out[m].fmt \in Directives
                       /\ out[m].stmt = Done
                       /\ out[m].table = out[k].table
                       /\ \A j \in k..(m - 1) :
                              out[j].fmt \in HelpFmts /\ out[j].table = out[k].table
                       /\ \A j \in 1..Len(out) :
                              (/\ out[j].fmt \in Directives
                               /\ out[j].stmt = Done
                               /\ out[j].table = out[k].table) => j = m

\* the value flag f has at the start of the command: the one given on the
\* command line, or else the default
Configured(f) == IF f \in DOMAIN flags THEN flags[f] ELSE DefaultGlobals[f]
Trimmed(f) == TrimSpace(Configured(f))

\* an option and its value, present when the value is not empty
Token(option, value) == IF value # Empty THEN option \o value ELSE Empty

\* the tokens -h, -u, --password= in this order for the values Val gives
OptionsFor(Val(_)) ==
    Token(<<" ", "-", "h", " ">>, IF Val("ip") # Empty THEN Val("ip") ELSE Val("host"))
    \o Token(<<" ", "-", "u", " ">>, Val("user"))
    \o Token(<<" ", "-", "-", "p", "a", "s", "s", "w", "o", "r", "d", "=">>,
             Val("password"))

\* C14 as stated: the connection options of every export directive are the
\* tokens -h <target>, -u <user>, --password=<password> in this order, each
\* present exactly when its configured value is not empty, the target being the
\* ip when ip and host are both configured.
C14_ConnOptsAsConfigured ==
    cmd = "dump" =>
        \A k \in 1..Len(out) :
            out[k].fmt \in Directives => out[k].args[1] = OptionsFor(Configured)

\* C14: the same, for the configured values with the blanks around them
\* removed: a token is present exactly when its trimmed value is not empty, and
\* the target is the trimmed ip when that is not empty, else the trimmed host.
C14_ConnOptsTrimmed ==
    cmd = "dump" =>
        \A k \in 1..Len(out) :
            out[k].fmt \in Directives => out[k].args[1] = OptionsFor(Trimmed)

C14_Witness ==
    /\ cmd = "dump"
    /\ {"ip", "host", "password"} \subseteq DOMAIN flags
    /\ "user" \notin DOMAIN flags
    /\ Trimmed("ip") # Empty
    /\ Trimmed("host") # Empty
    /\ \E k \in 1..Len(out) : out[k].fmt \in Directives

\* C15: when the parser reports an error for the input, the command writes
\* nothing, for no statement of the input, and returns the error.
C15_ParseErrorNoOutput ==
    (cmd \in {"parse", "dump"} /\ sql.err) =>
        /\ out = <<>>
        /\ pc \in {"start", "error", "reset"}

C15_Witness ==
    /\ sql.err
    /\ Len(sql.stmts) >= 2
    /\ pc = "error"
    /\ out = <<>>

\* every format runDump writes with
DumpFmts == Directives \cup HelpFmts \cup {FmtNoTables}

\* C16: export-plan generation never fails at run time, and every statement it
\* has processed has its no-tables notice or an export directive.
C16_RunsToCompletion ==
    /\ pc # "panic"
    /\ (cmd = "dump" /\ Returned) =>
           WritesOf(Done, Directives \cup {FmtNoTables}) # <<>>

\* C17: for a statement without tables export-plan mode writes the one line
\* "# No tables found in SQL statement" and nothing else, and goes on to the
\* statements after it.
C17_NoTablesNotice ==
    cmd = "dump" =>
        /\ (Returned /\ Len(v.TableNames) = 0) =>
               /\ WritesOf(Done, DumpFmts) = <<Write(Done, Empty, FmtNoTables, <<>>)>>
               /\ pc \in {"loop", "done"}
               /\ idx = Done + 1
        /\ \A i \in 1..Done :
               WritesOf(i, {FmtNoTables}) # <<>> =>
                   /\ Len(WritesOf(i, DumpFmts)) = 1
                   /\ \A j \in (i + 1)..Done : WritesOf(j, DumpFmts) # <<>>

C17_Witness ==
    /\ cmd = "dump"
    /\ Done = 2
    /\ WritesOf(1, DumpFmts) = <<Write(1, Empty, FmtNoTables, <<>>)>>
    /\ WritesOf(2, Directives) # <<>>

\* every format runParse writes with
ParseFmts ==
    {FmtSeparator, FmtStatement, FmtColumns, FmtTables, FmtAction, FmtWhere}

\* the formats of a sequence of writes, in order
FmtsOf(ws) == [k \in 1..Len(ws) |-> ws[k].fmt]

\* C18: in analysis mode the report of statement k, k >= 2, begins with the
\* line "---" and the header "Statement k:", k counted from 1; every report
\* then lists Columns, Tables and Action in this order, and ends with the
\* "WHERE filter:" line exactly when the WHERE filter is not empty.
C18_ReportLayout ==
    (cmd = "parse" /\ Returned) =>
        LET ws == WritesOf(Done, ParseFmts)
            header == IF Done >= 2 THEN 2
                      ELSE IF Len(ws) > 0 /\ ws[1].fmt = FmtStatement THEN 1 ELSE 0
            report == SubSeq(ws, header + 1, Len(ws))
        IN  /\ Done >= 2 =>
                   /\ Len(ws) >= 2
                   /\ ws[1].fmt = FmtSeparator
                   /\ ws[2].fmt = FmtStatement
                   /\ ws[2].args = <<Itoa(Done)>>
            /\ FmtsOf(report) =
                   <<FmtColumns, FmtTables, FmtAction>>
                   \o (IF v.WhereFilter # Empty THEN <<FmtWhere>> ELSE <<>>)
            /\ report[1].args = <<ListText(v.ColNames)>>
            /\ report[2].args = <<ListText(v.TableNames)>>
            /\ report[3].args = <<<<v.Action>>>>
            /\ v.WhereFilter # Empty => report[4].args = <<v.WhereFilter>>

C18_Witness ==
    /\ cmd = "parse"
    /\ Done = 2
    /\ v.WhereFilter # Empty
    /\ WritesOf(2, {FmtSeparator, FmtStatement, FmtWhere}) # <<>>
    /\ WritesOf(1, {FmtWhere}) = <<>>
    /\ WritesOf(1, {FmtAction}) # <<>>

\* the visitors the walk over nodes can end with when it starts with x
RECURSIVE Visit(_, _)
Visit(x, nodes) ==
    IF Len(nodes) = 0 THEN {x}
    ELSE LET x1 == EnterTables(x, Head(nodes))
         IN  UNION {Visit(EnterWhere(x1, Head(nodes), ord), Tail(nodes)) :
                      ord \in Orders(DOMAIN x1.AliasMap)}

\* the facts Extract can return for a statement that is processed alone
ExtractAlone(stmt) == Visit(NewColX, Accept(stmt))

\* C19: the facts extracted for a statement of an input of several statements
\* equal the facts extracted for the statement processed alone, whichever of
\* its possible results the extraction alone returns.
C19_SameFactsAlone ==
    (Len(stmtNodes) > 1 /\ Returned) => ExtractAlone(Root) = {v}

\* the database name an export directive is written with
DatabaseOf(w) == IF w.fmt = FmtDumpWhere THEN w.args[3] ELSE w.args[2]

\* C20: an invocation without the database flag writes its export directives
\* with database_name, and an invocation without any flag writes them without
\* connection options too, whatever flags the invocations before it were given,
\* ResetGlobals having been called after each of them.
C20_DefaultsAfterReset ==
    cmd = "dump" =>
        \A k \in 1..Len(out) :
            out[k].fmt \in Directives =>
                /\ "database" \notin DOMAIN flags => DatabaseOf(out[k]) = DatabaseName
                /\ flags = NoFlags => out[k].args[1] = Empty

C20_Witness ==
    /\ cmd = "dump"
    /\ Len(history) >= 1
    /\ history[Len(history)] = AllFlags
    /\ flags = NoFlags
    /\ \E k \in 1..Len(out) :
           /\ out[k].fmt \in Directives
           /\ DatabaseOf(out[k]) = DatabaseName
           /\ out[k].args[1] = Empty

\* the conditions of conds that the filter of table T keeps, each as it is
\* kept, in their order: one that contains "T." loses every "T.", one that
\* contains no "<table>." of the list stays as it is, the others are dropped
KeptFor(conds, T, tables) ==
    LET keeps(c) == Contains(c, T \o Dot)
                    \/ \A n \in SeqToSet(tables) : ~Contains(c, n \o Dot)
        kept == {k \in 1..Len(conds) : keeps(conds[k])}
        nth(i) == CHOOSE k \in kept : Cardinality({j \in kept : j <= k}) = i
    IN  [i \in 1..Cardinality(kept) |->
            IF Contains(conds[nth(i)], T \o Dot)
            THEN ReplaceAll(conds[nth(i)], T \o Dot, Empty)
            ELSE conds[nth(i)]]

\* C21 as stated: with two tables or more, the result is the kept conditions
\* joined by " and ", the conditions being the pieces between the " and "
\* separators exactly as they stand in the filter.
C21_SplitKeepsUnmodified ==
    (call.returned /\ Len(call.allTables) > 1) =>
        call.result = Join(KeptFor(Split(call.whereFilter, SepAnd), call.tableName,
                                   call.allTables), SepAnd)

\* C21: with two tables or more, FilterWhereForTable splits the filter on
\* " and ", strips the blanks around each piece, keeps a piece that contains
\* "T." with every "T." removed, drops a piece that contains another listed
\* table's "<table>." and no "T.", keeps a piece with no listed prefix as it is
\* (after the stripping), and joins what it keeps with " and " in the order of
\* the filter; an empty filter, or no piece kept, gives the empty text.
C21_SplitTrimKeep ==
    (call.returned /\ Len(call.allTables) > 1) =>
        LET parts == Split(call.whereFilter, SepAnd)
            conds == [k \in 1..Len(parts) |-> TrimSpace(parts[k])]
            kept == KeptFor(conds, call.tableName, call.allTables)
        IN  /\ call.result = Join(kept, SepAnd)
            /\ (call.whereFilter = Empty \/ Len(kept) = 0) => call.result = Empty

\* a filter of two conditions, the first with blanks to strip and the target's
\* prefix, the second another table's, so that one is kept and one dropped
C21_Witness ==
    /\ call.returned
    /\ Len(call.allTables) > 1
    /\ call.tableName = NameT
    /\ call.whereFilter = Join(<<<<" ", "t", ".", "x", "=", "1">>,
                                 <<"u", ".", "x", "=", "1">>>>, SepAnd)
    /\ call.allTables = <<NameT, NameU>>
    /\ call.result = <<"x", "=", "1">>

\* the quote at s[i] opens a literal: an even number of quotes stands before it
OpensLiteral(s, i) ==
    /\ s[i] = Quote[1]
    /\ Cardinality({j \in 1..(i - 1) : s[j] = Quote[1]}) % 2 = 0

\* C22: in every WHERE text that is rendered, no quoted literal has a charset
\* token left directly before its opening quote, whatever the charset the
\* statement gave the literal.
C22_NoCharsetPrefix ==
    lastRender.done =>
        \A i \in 2..Len(lastRender.filter) :
            OpensLiteral(lastRender.filter, i) => ~IsWordChar(lastRender.filter[i - 1])

AndAnd == <<" ", "A", "N", "D", " ", "A", "N", "D", " ">>

RECURSIVE AliasesIn(_)
RECURSIVE AliasesInAll(_)
AliasesInAll(nodes) == UNION {AliasesIn(nodes[k]) : k \in 1..Len(nodes)}

AliasesIn(n) ==
    CASE n.type = "TableSource" ->
            (IF n.AsName = Empty THEN {} ELSE {n.AsName}) \cup AliasesIn(n.Source)
      [] n.type = "Join" ->
            AliasesIn(n.Left) \cup AliasesIn(n.Right) \cup AliasesIn(n.On)
      [] n.type = "BinaryOperationExpr" -> AliasesIn(n.L) \cup AliasesIn(n.R)
      [] n.type = "PatternInExpr" -> AliasesIn(n.Expr) \cup AliasesIn(n.Sel)
      [] n.type = "Assignment" -> AliasesIn(n.Expr)
      [] n.type = "SelectStmt" -> AliasesIn(n.From) \cup AliasesIn(n.Where)
      [] n.type = "UpdateStmt" ->
            AliasesIn(n.TableRefs) \cup AliasesInAll(n.List) \cup AliasesIn(n.Where)
      [] n.type = "DeleteStmt" -> AliasesIn(n.TableRefs) \cup AliasesIn(n.Where)
      [] n.type = "InsertStmt" -> AliasesIn(n.Table) \cup AliasesIn(n.Select)
      [] n.type = "CreateTableStmt" -> AliasesIn(n.Select)
      [] OTHER -> {}

\* C24: when a WHERE text has been rendered, the alias map it was rendered
\* with holds every alias declared anywhere in the statement, subqueries
\* included, and the rendered text names no such alias as a qualifier.
C24_AliasesKnownAtRender ==
    (pc = "visit" /\ lastRender.done) =>
        \A a \in AliasesIn(stmtNodes[idx]) :
            /\ a \in DOMAIN lastRender.aliasMap
            /\ ~QualifiedBy(lastRender.filter, a)

\* the table sources of a join tree, left before right at every join
RECURSIVE LeafSeq(_)
LeafSeq(n) ==
    CASE n.type = "TableSource" -> <<n>>
      [] n.type = "Join" -> LeafSeq(n.Left) \o LeafSeq(n.Right)
      [] OTHER -> <<>>

\* the members of s, each at its first occurrence
FirstOccurrences(s) ==
    LET first == {k \in 1..Len(s) : \A j \in 1..(k - 1) : s[j] # s[k]}
        nth(i) == CHOOSE k \in first : Cardinality({j \in first : j <= k}) = i
    IN  [i \in 1..Cardinality(first) |-> s[nth(i)]]

\* the join tree Enter reads for a statement
JoinOf(stmt) ==
    CASE stmt.type = "SelectStmt" -> stmt.From
      [] stmt.type \in {"UpdateStmt", "DeleteStmt"} -> stmt.TableRefs
      [] stmt.type = "InsertStmt" -> stmt.Table
      [] OTHER -> Nil

\* Enter has returned for the root of the statement, and for no other node
RootEntered ==
    /\ pc = "visit"
    /\ Len(todo) + 1 = Len(Accept(stmtNodes[idx]))

\* C25: once the root of a statement with a join tree is entered, the table list is the names
\* of the leaves of its join tree, left before right at every depth, each name
\* at its first occurrence only, and every alias of a leaf is in the alias map
\* with the leaf's table name.
C25_TablesInLeafOrder ==
    (RootEntered /\ ~IsNil(JoinOf(stmtNodes[idx]))) =>
        LET leaves == LeafSeq(JoinOf(stmtNodes[idx]))
            names == [k \in 1..Len(leaves) |-> leaves[k].Source.Name]
        IN  /\ v.TableNames = FirstOccurrences(names)
            /\ \A k \in 1..Len(leaves) :
                   leaves[k].AsName # Empty =>
                       /\ leaves[k].AsName \in DOMAIN v.AliasMap
                       /\ v.AliasMap[leaves[k].AsName] = leaves[k].Source.Name

\* (t JOIN u AS a) JOIN t AS u: three leaves at two depths, t named twice
C25_Witness ==
    /\ RootEntered
    /\ JoinOf(stmtNodes[idx]).type = "Join"
    /\ JoinOf(stmtNodes[idx]).Left.type = "Join"
    /\ Len(LeafSeq(JoinOf(stmtNodes[idx]))) = 3
    /\ v.TableNames = <<NameT, NameU>>
    /\ DOMAIN v.AliasMap = {AliasA, NameU}

\* C26: the facts returned for a DDL statement name exactly the table of an
\* ALTER, CREATE or TRUNCATE, and the tables of a DROP in the order they are
\* listed; the whereFilter and the primary table are empty.
C26_DdlTables ==
    Returned =>
        /\ Root.type \in {"AlterTableStmt", "CreateTableStmt", "TruncateTableStmt"} =>
               /\ v.TableNames = <<Root.Table.Name>>
               /\ v.WhereFilter = Empty
               /\ v.PrimaryTable = Empty
        /\ Root.type = "DropTableStmt" =>
               /\ v.TableNames = [k \in 1..Len(Root.Tables) |-> Root.Tables[k].Name]
               /\ v.WhereFilter = Empty
               /\ v.PrimaryTable = Empty

\* Enter is about to be called on a node whose WHERE clause cannot be restored
EntersUnrestorable ==
    /\ pc = "visit"
    /\ todo # <<>>
    /\ ~IsNil(WhereOf(Head(todo)))
    /\ RestoreFails(WhereOf(Head(todo)))

\* the node with a WHERE clause that can be restored in the place of its own
Restorable(node) == [node EXCEPT !.Where = Equals(ColumnNameExpr(AliasA, ColX1), One)]

\* C27: when the WHERE clause of a node cannot be restored, Enter returns as
\* for any node and the walk goes on; the whereFilter is what it was before
\* (empty when this is the statement's only WHERE clause); tables, columns,
\* action, primary table and alias map are those Enter leaves for the same node
\* with a WHERE clause that can be restored.
C27_RestoreErrorKeepsFilter ==
    [][EntersUnrestorable =>
          /\ pc' = "visit"
          /\ todo' = Tail(todo)
          /\ v'.WhereFilter = v.WhereFilter
          /\ \E ord \in Orders(DOMAIN v'.AliasMap) :
                 LET good == Restorable(Head(todo))
                     x == EnterWhere(EnterTables(v, good), good, ord)
                 IN  v' = [x EXCEPT !.WhereFilter = v.WhereFilter]]_vars

\* UPDATE t SET x = (SELECT x FROM tu WHERE a.x BAD 1) WHERE x=1 at the end of
\* its walk: the filter of the outer WHERE clause is still there
C27_Witness ==
    /\ pc = "visit"
    /\ todo = <<>>
    /\ stmtNodes[idx].type = "UpdateStmt"
    /\ stmtNodes[idx].List = SetSubBad
    /\ v.WhereFilter = <<"x", "=", "1">>
    /\ v.TableNames = <<NameT, NameTU>>

\* an UPDATE or DELETE over several tables with a WHERE filter has been exported
WriteOverJoin ==
    /\ cmd = "dump"
    /\ Returned
    /\ Root.type \in {"UpdateStmt", "DeleteStmt"}
    /\ Len(v.TableNames) > 1
    /\ v.WhereFilter # Empty
    /\ v.PrimaryTable # Empty

\* the formats of the lines written for the primary table of the statement
PrimaryFmts ==
    LET ws == SelectSeq(out, LAMBDA w : w.stmt = Done /\ w.table = v.PrimaryTable)
    IN  [k \in 1..Len(ws) |-> ws[k].fmt]

\* C28 as stated: the lines written for the primary table of such a statement
\* are never an unfiltered export directive alone; a directive with --where or
\* a line of the helper block is among them.
C28_NeverUnfilteredAlone ==
    WriteOverJoin =>
        /\ PrimaryFmts # <<FmtDump>>
        /\ \E k \in 1..Len(PrimaryFmts) : PrimaryFmts[k] \in {FmtDumpWhere} \cup HelpFmts

\* C28: the lines written for the primary table of such a statement are an
\* unfiltered export directive alone exactly when the per-table filter of the
\* primary table is empty (no condition of the WHERE filter is kept for it);
\* otherwise a directive with --where or a line of the helper block is among
\* them.
C28_UnfilteredIffNoOwnCondition ==
    WriteOverJoin =>
        /\ PrimaryFmts = <<FmtDump>> <=> PerTableFilter(v, v.PrimaryTable) = Empty
        /\ PerTableFilter(v, v.PrimaryTable) # Empty =>
               \E k \in 1..Len(PrimaryFmts) :
                   PrimaryFmts[k] \in {FmtDumpWhere} \cup HelpFmts

\* UPDATE t JOIN u AS a ... WHERE a.x=1: the only condition is the other
\* table's, and the primary table is exported whole, with no helper block
C28_Witness ==
    /\ WriteOverJoin
    /\ IsWrite(v.Action)
    /\ v.PrimaryTable = NameT
    /\ v.WhereFilter = <<"u", ".", "x", "=", "1">>
    /\ PerTableFilter(v, v.PrimaryTable) = Empty
    /\ PrimaryFmts = <<FmtDump>>

\* the texts between the quotes of the string literals of s, literal by literal
QuotedParts(s) ==
    LET quotes == {i \in 1..Len(s) : s[i] = Quote[1]}
        nth(k) == CHOOSE i \in quotes : Cardinality({j \in quotes : j <= i}) = k
    IN  [k \in 1..(Cardinality(quotes) \div 2) |->
            SubSeq(s, nth(2 * k - 1) + 1, nth(2 * k) - 1)]

\* C29: in every WHERE text that is rendered, the characters between the
\* quotes of each string literal are those of the same literal in the text the
\* tree restored.
C29_LiteralsUnchanged ==
    lastRender.done =>
        QuotedParts(lastRender.filter) = QuotedParts(lastRender.restored)

\* the alias the lookup query gives the primary table ("SELECT e.id FROM %s e")
PrimaryAlias == <<"e">>

\* the aliases the lookup query written for statement i gives the joined tables
JoinAliases(i) ==
    LET js == WritesOf(i, {FmtHelpJoin}) IN [k \in 1..Len(js) |-> js[k].args[2]]

\* C30: in the lookup query of a helper block, the aliases of the joined tables
\* differ from each other and from the alias of the primary table.
C30_AliasesDistinct ==
    cmd = "dump" =>
        \A i \in 1..Len(stmtNodes) :
            /\ \A j, k \in 1..Len(JoinAliases(i)) :
                   j # k => JoinAliases(i)[j] # JoinAliases(i)[k]
            /\ \A j \in 1..Len(JoinAliases(i)) : JoinAliases(i)[j] # PrimaryAlias

=============================================================================
